---- MODULE Spec2Model ----
\* Model of src/src/loading.py: the loader facade (prepare_pipe), the raw
\* checkpoint conversion pipeline
\* (load_ckpt_or_safetensors_file_and_cache_as_diffusers) and the on-disk
\* cache directory that pipe.save_pretrained populates.
EXTENDS Integers, Sequences, FiniteSets, TLC

VARIABLES
    pc,         \* per request: the place the request has reached
    args,       \* per request: the arguments prepare_pipe was called with
    route,      \* per request: the branch of prepare_pipe that was taken
    choice,     \* per request: the dictionary entry the branch looked up
    call,       \* per request: the arguments of load_ckpt_or_safetensors_...
    loc,        \* per request: the local variables of load_ckpt_or_safetensors_...
    ret,        \* per request: what the outermost call returned or raised
    ran,        \* per request: the stages that ran, in order
    cache,      \* the cache directory: model name -> part -> content
    stored,     \* model name -> the pipe of the save_pretrained that completed last
    repeats     \* number of further requests started after a finished one

vars == <<pc, args, route, choice, call, loc, ret, ran, cache, stored, repeats>>

----------------------------------------------------------------------------
\* Python's Optional values: None, or a one-element tuple holding the value.

None == <<>>
Some(x) == <<x>>
Val(o) == o[1]
Truthy(o) == o # None /\ Val(o) # ""

----------------------------------------------------------------------------
\* Bounds of the model and constants of the program.

MaxRepeats == 1

WideDim == 1024
V21Step == 110000
BaseStep == 875000
LowRes == 512
HighRes == 768

Procs == {1, 2}
Names == {"a", "b"}
ModelTypes == {"Installed Models", "Downloadable Models", "Custom Models", "Textual Inversion"}

KeyName == "model.diffusion_model.input_blocks.2.1.transformer_blocks.0.attn2.to_k.weight"
V2Config == "src/scripts/v2-inference-v.yaml"
V1Config == "src/scripts/v1-inference.yaml"
UserVConfig == "user/v-openclip.yaml"
UserEpsConfig == "user/eps-clip.yaml"
UserOtherConfig == "user/v-bert.yaml"

\* The structural config documents OmegaConf.load can read: the two bundled
\* ones and three a caller may supply.
ConfigFiles ==
    [p \in {V2Config, V1Config, UserVConfig, UserEpsConfig, UserOtherConfig} |->
        CASE p = V2Config ->
                [parameterization |-> Some("v"),
                 target |-> <<"ldm", "modules", "encoders", "modules", "FrozenOpenCLIPEmbedder">>]
          [] p = V1Config ->
                [parameterization |-> None,
                 target |-> <<"ldm", "modules", "encoders", "modules", "FrozenCLIPEmbedder">>]
          [] p = UserVConfig ->
                [parameterization |-> Some("v"),
                 target |-> <<"ldm", "modules", "encoders", "modules", "FrozenOpenCLIPEmbedder">>]
          [] p = UserEpsConfig ->
                [parameterization |-> Some("eps"),
                 target |-> <<"ldm", "modules", "encoders", "modules", "FrozenCLIPEmbedder">>]
          [] OTHER ->
                [parameterization |-> Some("v"),
                 target |-> <<"ldm", "modules", "encoders", "modules", "BERTEmbedder">>]]

\* A checkpoint file: the optional global_step of the outer mapping and the
\* state dict, of which only the distinguishing key's shape is kept (None when
\* the key is absent, else the trailing dimension).
Checkpoints ==
    [global_step : {None, Some(V21Step), Some(BaseStep), Some(1)},
     key_dim : {None, Some(768), Some(WideDim)}]

ExplicitConfigs == {Some(UserVConfig), Some(UserEpsConfig), Some(UserOtherConfig)}
VaeFiles == {None, Some("vae.ckpt")}
Predictions == {"epsilon", "v_prediction"}

\* Entries of the three source dictionaries.
CachedEntries == [path : {"hf-cache/a"}, keyword : {"kw"}, prediction_type : Predictions]
\* A dictionary maps each name to None (no such key) or to its entry.
EmptyDict == [n \in Names |-> None]
Keys(d) == {n \in Names : d[n] # None}
CachedDicts ==
    {None, Some(EmptyDict)}
        \cup {Some([n \in Names |-> IF n = "a" THEN Some(e) ELSE None]) : e \in CachedEntries}
DownloadableEntries ==
    [type : {"diffusers", "hf-file", "lora"}, repo_id : {"repo"},
     filename : Checkpoints, config_file : {None, Some(""), Some(UserVConfig), Some(UserEpsConfig)},
     vae : {None}, keyword : {"kw"}, prediction : Predictions]
CustomEntries ==
    [path : Checkpoints, config : {None} \cup ExplicitConfigs, vae : VaeFiles, keywords : {"kw"}]

KeySets == {{}, {"a"}}
PipeArgs ==
    [model_name : Names, model_type : ModelTypes, cached : CachedDicts,
     downloadable_keys : KeySets, custom_keys : {None} \cup {Some(k) : k \in KeySets}]

NoArgs == [model_name |-> "", model_type |-> "", cached |-> None,
           downloadable_keys |-> {}, custom_keys |-> None]
NoCall == [custom_model_path |-> None, model_name |-> "", config_file_path |-> None,
           image_size |-> None, prediction_type |-> None, vae_file_path |-> None,
           should_cache |-> FALSE]
NoLoc == [global_step |-> None, checkpoint |-> None, upcast_attention |-> FALSE,
          prediction_type |-> None, image_size |-> None, config_file_path |-> None,
          original_config |-> None, scheduler |-> None, unet |-> None, vae |-> None,
          text_model |-> None, pipe |-> None, part |-> 1]
NoRet == [status |-> "none", error |-> "", pipe |-> None, pipe_info |-> None,
          prediction_type |-> None]

\* One serialized component of a pipeline: what it was built from.
Component(kind, ckpt, vae_file, image_size, upcast, family, prediction) ==
    [kind |-> kind, ckpt |-> ckpt, vae_file |-> vae_file, image_size |-> image_size,
     upcast |-> upcast, family |-> family, prediction_type |-> prediction]
OldComponent == Component("old", None, None, None, FALSE, "", "")

\* The part files save_pretrained writes under folder_path/model_name, in order.
Parts == <<"vae", "text_encoder", "unet", "scheduler">>
PartSet == {Parts[i] : i \in 1..Len(Parts)}
EmptyDir == [p \in PartSet |-> None]
OldDir == [p \in PartSet |-> Some(OldComponent)]
InitialCaches == {[n \in Names |-> EmptyDir], [n \in Names |-> IF n = "a" THEN OldDir ELSE EmptyDir]}

\* A pipeline object: where it came from, its components, and the post-load
\* options applied to it.
Pipe(origin, path, components) ==
    [origin |-> origin, path |-> path, components |-> components,
     attention |-> "none", device |-> "cpu", dtype |-> "float32"]

----------------------------------------------------------------------------
\* The pure steps of load_ckpt_or_safetensors_file_and_cache_as_diffusers.

\* Lines 175-186: read the file, split off the training metadata.
ReadCheckpoint(file) ==
    [global_step |-> file.global_step, checkpoint |-> [key_dim |-> file.key_dim]]

\* Lines 187-189: the locals the function starts from, whatever the caller passed.
InitialPrediction(prediction_type) == None
InitialImageSize(image_size) == None

\* Variants of DetectConfig with a plausible slip each: the family chosen by the
\* key's presence alone; a missing key taken for the wide family; detection run
\* although a config was given.
DetectByPresence(config_file_path, checkpoint, global_step) ==
    IF config_file_path = None
    THEN IF checkpoint.key_dim # None
         THEN [config_file_path |-> Some(V2Config),
               upcast_attention |-> (global_step = Some(V21Step))]
         ELSE [config_file_path |-> Some(V1Config), upcast_attention |-> FALSE]
    ELSE [config_file_path |-> config_file_path, upcast_attention |-> FALSE]

DetectAbsentWide(config_file_path, checkpoint, global_step) ==
    IF config_file_path = None
    THEN IF checkpoint.key_dim = None \/ Val(checkpoint.key_dim) = WideDim
         THEN [config_file_path |-> Some(V2Config),
               upcast_attention |-> (global_step = Some(V21Step))]
         ELSE [config_file_path |-> Some(V1Config), upcast_attention |-> FALSE]
    ELSE [config_file_path |-> config_file_path, upcast_attention |-> FALSE]

DetectAlways(config_file_path, checkpoint, global_step) ==
    IF checkpoint.key_dim # None /\ Val(checkpoint.key_dim) = WideDim
    THEN [config_file_path |-> Some(V2Config),
          upcast_attention |-> (global_step = Some(V21Step))]
    ELSE [config_file_path |-> Some(V1Config), upcast_attention |-> FALSE]

\* Lines 191-199: with no config given, pick the bundled config by the
\* distinguishing key's trailing dimension.
DetectConfig(config_file_path, checkpoint, global_step) ==
    IF config_file_path = None
    THEN IF checkpoint.key_dim # None /\ Val(checkpoint.key_dim) = WideDim
         THEN [config_file_path |-> Some(V2Config),
               upcast_attention |-> (global_step = Some(V21Step))]
         ELSE [config_file_path |-> Some(V1Config), upcast_attention |-> FALSE]
    ELSE [config_file_path |-> config_file_path, upcast_attention |-> FALSE]

\* Lines 202-205.
IsVParameterization(original_config) ==
    original_config.parameterization # None /\ Val(original_config.parameterization) = "v"

\* Lines 206-209 and 215-216.
ResolvePrediction(original_config, prediction_type, global_step) ==
    IF prediction_type # None
    THEN Val(prediction_type)
    ELSE IF IsVParameterization(original_config)
         THEN IF global_step = Some(BaseStep) THEN "epsilon" ELSE "v_prediction"
         ELSE "epsilon"

\* Lines 210-213 and 217-218.
ResolveImageSize(original_config, image_size, global_step) ==
    IF image_size # None
    THEN Val(image_size)
    ELSE IF IsVParameterization(original_config)
         THEN IF global_step = Some(BaseStep) THEN LowRes ELSE HighRes
         ELSE LowRes

\* Lines 261-262: the last dotted segment of cond_stage_config.target.
TextEncoderFamily(original_config) == original_config.target[Len(original_config.target)]

KnownFamilies == {"FrozenOpenCLIPEmbedder", "FrozenCLIPEmbedder"}

\* A variant of AssemblePipe that binds the pipeline for any family.
AssembleAnyFamily(model_type, vae, text_model, unet, scheduler) ==
    Some(Pipe("converted", "",
              [p \in PartSet |->
                  CASE p = "vae" -> vae
                    [] p = "text_encoder" -> text_model
                    [] p = "unet" -> unet
                    [] OTHER -> scheduler]))

\* Lines 264-297: the pipeline object, bound only in the two known branches.
AssemblePipe(model_type, vae, text_model, unet, scheduler) ==
    IF model_type \in KnownFamilies
    THEN Some(Pipe("converted", "",
                   [p \in PartSet |->
                       CASE p = "vae" -> vae
                         [] p = "text_encoder" -> text_model
                         [] p = "unet" -> unet
                         [] OTHER -> scheduler]))
    ELSE None

----------------------------------------------------------------------------
\* Helpers of the actions.

Goto(r, place) == pc' = [pc EXCEPT ![r] = place]
Ran(r, stage) == ran' = [ran EXCEPT ![r] = Append(@, stage)]
\* An exception propagates to the outermost caller.
Raise(r, error) ==
    /\ pc' = [pc EXCEPT ![r] = "error"]
    /\ ret' = [ret EXCEPT ![r] = [NoRet EXCEPT !.status = "error", !.error = error]]

\* Lines 91-109: what download_and_load_non_diffusers_model passes on.
HfFileCall(model_choice, model_name) ==
    [custom_model_path |-> Some(model_choice.filename), model_name |-> model_name,
     config_file_path |-> IF Truthy(model_choice.config_file) THEN model_choice.config_file ELSE None,
     image_size |-> Some(LowRes), prediction_type |-> None,
     vae_file_path |-> IF Truthy(model_choice.vae) THEN model_choice.vae ELSE None,
     should_cache |-> TRUE]

\* Lines 73-83: what load_custom_model_from_local_file passes on.
CustomCall(custom_model, model_name) ==
    [custom_model_path |-> Some(custom_model.path), model_name |-> model_name,
     config_file_path |-> custom_model.config,
     image_size |-> Some(LowRes), prediction_type |-> None,
     vae_file_path |-> custom_model.vae, should_cache |-> TRUE]

\* A variant of CachedBranch taken only for the installed-models type.
CachedBranchInstalledOnly(a) ==
    /\ a.cached # None
    /\ Keys(Val(a.cached)) # {}
    /\ a.model_type = "Installed Models"

\* Line 36: the cache branch is taken.
CachedBranch(a) ==
    /\ a.cached # None
    /\ Keys(Val(a.cached)) # {}
    /\ (a.model_name \in Keys(Val(a.cached)) \/ a.model_type = "Installed Models")

\* Line 50: the custom branch is taken.
CustomBranch(a) ==
    /\ a.custom_keys # None
    /\ Val(a.custom_keys) # {}
    /\ a.model_type = "Custom Models"

----------------------------------------------------------------------------
\* The actions.

Init ==
    /\ pc = [r \in Procs |-> "idle"]
    /\ args = [r \in Procs |-> NoArgs]
    /\ route = [r \in Procs |-> "none"]
    /\ choice = [r \in Procs |-> None]
    /\ call = [r \in Procs |-> NoCall]
    /\ loc = [r \in Procs |-> NoLoc]
    /\ ret = [r \in Procs |-> NoRet]
    /\ ran = [r \in Procs |-> <<>>]
    /\ cache \in InitialCaches
    /\ stored = [n \in Names |-> None]
    /\ repeats = 0

\* prepare_pipe, lines 33-60: choose the source and look its entry up. A is the
\* set of argument tuples, D and C the entries the downloadable and the custom
\* dictionary may hold under a key.
PreparePipe(r, A, D, C) ==
    /\ pc[r] = "idle"
    /\ \E a \in A :
        /\ args' = [args EXCEPT ![r] = a]
        /\ UNCHANGED <<loc, cache, stored, repeats>>
        /\ IF CachedBranch(a)
           THEN IF a.model_name \in Keys(Val(a.cached))
                THEN /\ route' = [route EXCEPT ![r] = "cached"]
                     /\ choice' = [choice EXCEPT ![r] = Val(a.cached)[a.model_name]]
                     /\ ret' = [ret EXCEPT ![r].pipe_info = Val(a.cached)[a.model_name]]
                     /\ Goto(r, "load_installed")
                     /\ UNCHANGED <<call, ran>>
                ELSE /\ route' = [route EXCEPT ![r] = "cached"]
                     /\ Raise(r, "KeyError")
                     /\ UNCHANGED <<choice, call, ran>>
           ELSE IF a.model_type = "Downloadable Models"
           THEN IF a.model_name \notin a.downloadable_keys
                THEN /\ route' = [route EXCEPT ![r] = "downloadable"]
                     /\ Raise(r, "KeyError")
                     /\ UNCHANGED <<choice, call, ran>>
                ELSE \E model_choice \in D :
                     /\ choice' = [choice EXCEPT ![r] = Some(model_choice)]
                     /\ ret' = [ret EXCEPT ![r].pipe_info =
                                   Some([keyword |-> model_choice.keyword,
                                         prediction_type |-> model_choice.prediction])]
                     /\ IF model_choice.type = "diffusers"
                        THEN /\ route' = [route EXCEPT ![r] = "diffusers"]
                             /\ Goto(r, "load_diffusers")
                             /\ UNCHANGED <<call, ran>>
                        ELSE IF model_choice.type = "hf-file"
                        THEN /\ route' = [route EXCEPT ![r] = "hf-file"]
                             /\ call' = [call EXCEPT ![r] = HfFileCall(model_choice, a.model_name)]
                             /\ Ran(r, "download")
                             /\ Goto(r, "resolve")
                        ELSE /\ route' = [route EXCEPT ![r] = "downloadable"]
                             /\ Goto(r, "post")
                             /\ UNCHANGED <<call, ran>>
           ELSE IF CustomBranch(a)
           THEN IF a.model_name \notin Val(a.custom_keys)
                THEN /\ route' = [route EXCEPT ![r] = "custom"]
                     /\ Raise(r, "KeyError")
                     /\ UNCHANGED <<choice, call, ran>>
                ELSE \E custom_model \in C :
                     /\ route' = [route EXCEPT ![r] = "custom"]
                     /\ choice' = [choice EXCEPT ![r] = Some(custom_model)]
                     /\ call' = [call EXCEPT ![r] = CustomCall(custom_model, a.model_name)]
                     /\ Goto(r, "resolve")
                     /\ UNCHANGED <<ret, ran>>
           ELSE /\ route' = [route EXCEPT ![r] = "else"]
                /\ Raise(r, "ValueError: Tried to load and failed.")
                /\ UNCHANGED <<choice, call, ran>>

\* load_installed_model_from_hf_cache, lines 37-38 and 86-88.
LoadInstalled(r) ==
    /\ pc[r] = "load_installed"
    /\ Ran(r, "load_installed")
    /\ \E ok \in BOOLEAN :
        IF ok
        THEN /\ loc' = [loc EXCEPT ![r].pipe = Some(Pipe("hf-cache", Val(choice[r]).path, EmptyDir))]
             /\ Goto(r, "post")
             /\ UNCHANGED ret
        ELSE /\ Raise(r, "OSError")
             /\ UNCHANGED loc
    /\ UNCHANGED <<args, route, choice, call, cache, stored, repeats>>

\* load_diffusers_model, lines 42 and 113-125.
LoadDiffusers(r) ==
    /\ pc[r] = "load_diffusers"
    /\ Ran(r, "load_diffusers")
    /\ \E ok \in BOOLEAN :
        IF ok
        THEN /\ loc' = [loc EXCEPT ![r].pipe = Some(Pipe("hub", Val(choice[r]).repo_id, EmptyDir))]
             /\ Goto(r, "post")
             /\ UNCHANGED ret
        ELSE /\ Raise(r, "OSError")
             /\ UNCHANGED loc
    /\ UNCHANGED <<args, route, choice, call, cache, stored, repeats>>

\* A direct call of load_ckpt_or_safetensors_file_and_cache_as_diffusers,
\* lines 165-173, with any of its parameters set. K is the set of calls.
LoadCkpt(r, K) ==
    /\ pc[r] = "idle"
    /\ \E k \in K : call' = [call EXCEPT ![r] = k]
    /\ route' = [route EXCEPT ![r] = "direct"]
    /\ Goto(r, "resolve")
    /\ UNCHANGED <<args, choice, loc, ret, ran, cache, stored, repeats>>

\* Lines 175-233: read the checkpoint, pick and load the structural config,
\* resolve the prediction target and the resolution, build the noise schedule.
\* torch.load, safe_open and OmegaConf.load may raise (ok = FALSE).
ResolveConfig(r) ==
    /\ pc[r] = "resolve"
    /\ LET rd == ReadCheckpoint(Val(call[r].custom_model_path))
           det == DetectConfig(call[r].config_file_path, rd.checkpoint, rd.global_step)
           original_config == ConfigFiles[Val(det.config_file_path)]
           prediction_type == ResolvePrediction(original_config,
                                  InitialPrediction(call[r].prediction_type), rd.global_step)
           image_size == ResolveImageSize(original_config,
                                  InitialImageSize(call[r].image_size), rd.global_step)
           stages == IF call[r].config_file_path = None
                     THEN <<"read", "detect", "config">> ELSE <<"read", "config">>
       IN  /\ ran' = [ran EXCEPT ![r] = @ \o stages]
           /\ \E ok \in BOOLEAN :
               IF ok
               THEN /\ loc' = [loc EXCEPT ![r] =
                              [@ EXCEPT !.global_step = rd.global_step,
                                        !.checkpoint = Some(rd.checkpoint),
                                        !.upcast_attention = det.upcast_attention,
                                        !.config_file_path = det.config_file_path,
                                        !.original_config = Some(original_config),
                                        !.prediction_type = Some(prediction_type),
                                        !.image_size = Some(image_size),
                                        !.scheduler = Some(Component("scheduler", None, None, None,
                                                                     FALSE, "", prediction_type))]]
                    /\ Goto(r, "unet")
                    /\ UNCHANGED ret
               ELSE /\ Raise(r, "config")
                    /\ UNCHANGED loc
    /\ UNCHANGED <<args, route, choice, call, cache, stored, repeats>>

\* Lines 235-243: the denoiser. convert_ldm_unet_checkpoint and load_state_dict
\* may raise.
BuildUnet(r) ==
    /\ pc[r] = "unet"
    /\ Ran(r, "unet")
    /\ \E ok \in BOOLEAN :
        IF ok
        THEN /\ loc' = [loc EXCEPT ![r].unet =
                           Some(Component("unet", call[r].custom_model_path, None,
                                          loc[r].image_size, loc[r].upcast_attention, "", ""))]
             /\ Goto(r, "vae")
             /\ UNCHANGED ret
        ELSE /\ Raise(r, "unet")
             /\ UNCHANGED loc
    /\ UNCHANGED <<args, route, choice, call, cache, stored, repeats>>

\* Lines 245-259: the image codec, from the separate file when one is given.
BuildVae(r) ==
    /\ pc[r] = "vae"
    /\ Ran(r, "vae")
    /\ \E ok \in BOOLEAN :
        IF ok
        THEN /\ loc' = [loc EXCEPT ![r].vae =
                           IF Truthy(call[r].vae_file_path)
                           THEN Some(Component("vae", None, call[r].vae_file_path,
                                               loc[r].image_size, FALSE, "", ""))
                           ELSE Some(Component("vae", call[r].custom_model_path, None,
                                               loc[r].image_size, FALSE, "", ""))]
             /\ Goto(r, "text")
             /\ UNCHANGED ret
        ELSE /\ Raise(r, "vae")
             /\ UNCHANGED loc
    /\ UNCHANGED <<args, route, choice, call, cache, stored, repeats>>

\* Lines 261-299: the text encoder of the family the config names and the
\* pipeline object; with any other family no branch runs and pipe stays unbound.
BuildTextEncoder(r) ==
    /\ pc[r] = "text"
    /\ LET model_type == TextEncoderFamily(Val(loc[r].original_config))
           text_model == Some(Component("text_encoder", call[r].custom_model_path, None, None,
                                        FALSE, model_type, ""))
           after == IF call[r].should_cache THEN "store" ELSE "return"
       IN  IF model_type \in KnownFamilies
           THEN /\ Ran(r, "text")
                /\ \E ok \in BOOLEAN :
                    IF ok
                    THEN /\ loc' = [loc EXCEPT ![r] =
                                   [@ EXCEPT !.text_model = text_model,
                                             !.pipe = AssemblePipe(model_type, loc[r].vae, text_model,
                                                                   loc[r].unet, loc[r].scheduler)]]
                         /\ Goto(r, after)
                         /\ UNCHANGED ret
                    ELSE /\ Raise(r, "text")
                         /\ UNCHANGED loc
           ELSE /\ loc' = [loc EXCEPT ![r].pipe =
                               AssemblePipe(model_type, loc[r].vae, None, loc[r].unet, loc[r].scheduler)]
                /\ Goto(r, after)
                /\ UNCHANGED <<ret, ran>>
    /\ UNCHANGED <<args, route, choice, call, cache, stored, repeats>>

\* A variant of Store that leaves a part file alone when one exists already.
StoreKeepExisting(r) ==
    /\ pc[r] = "store"
    /\ IF loc[r].pipe = None
       THEN /\ Raise(r, "UnboundLocalError")
            /\ UNCHANGED <<loc, ran, cache, stored>>
       ELSE LET i == loc[r].part
                n == call[r].model_name
                components == Val(loc[r].pipe).components
            IN  /\ cache' = [cache EXCEPT ![n][Parts[i]] =
                                 IF @ = None THEN components[Parts[i]] ELSE @]
                /\ ran' = [ran EXCEPT ![r] = IF i = 1 THEN Append(@, "store") ELSE @]
                /\ loc' = [loc EXCEPT ![r].part = i + 1]
                /\ IF i = Len(Parts)
                   THEN /\ stored' = [stored EXCEPT ![n] = Some(components)]
                        /\ Goto(r, "return")
                   ELSE UNCHANGED <<stored, pc>>
                /\ UNCHANGED ret
    /\ UNCHANGED <<args, route, choice, call, repeats>>

\* Line 300: pipe.save_pretrained writes the parts one file after another under
\* folder_path/model_name; nothing serializes two writers of one directory.
Store(r) ==
    /\ pc[r] = "store"
    /\ IF loc[r].pipe = None
       THEN /\ Raise(r, "UnboundLocalError")
            /\ UNCHANGED <<loc, ran, cache, stored>>
       ELSE LET i == loc[r].part
                n == call[r].model_name
                components == Val(loc[r].pipe).components
            IN  /\ cache' = [cache EXCEPT ![n][Parts[i]] = components[Parts[i]]]
                /\ ran' = [ran EXCEPT ![r] = IF i = 1 THEN Append(@, "store") ELSE @]
                /\ loc' = [loc EXCEPT ![r].part = i + 1]
                /\ IF i = Len(Parts)
                   THEN /\ stored' = [stored EXCEPT ![n] = Some(components)]
                        /\ Goto(r, "return")
                   ELSE UNCHANGED <<stored, pc>>
                /\ UNCHANGED ret
    /\ UNCHANGED <<args, route, choice, call, repeats>>

\* Line 303 and the caller's use of the result: lines 52-58 for a custom model,
\* lines 102-110 and 46-49 for a downloaded file.
ReturnFromLoad(r) ==
    /\ pc[r] = "return"
    /\ IF loc[r].pipe = None
       THEN Raise(r, "UnboundLocalError")
       ELSE IF route[r] = "custom"
       THEN /\ ret' = [ret EXCEPT ![r].pipe_info =
                          Some([keyword |-> Val(choice[r]).keywords,
                                prediction_type |-> Val(loc[r].prediction_type)])]
            /\ Goto(r, "post")
       ELSE IF route[r] = "hf-file"
       THEN /\ Goto(r, "post")
            /\ UNCHANGED ret
       ELSE /\ ret' = [ret EXCEPT ![r] = [NoRet EXCEPT !.status = "ok", !.pipe = loc[r].pipe,
                                                       !.prediction_type = loc[r].prediction_type]]
            /\ Goto(r, "done")
    /\ UNCHANGED <<args, route, choice, call, loc, ran, cache, stored, repeats>>

\* Lines 62-70: the post-load options and the device placement, then the return.
\* X and S are the values enable_xformers and enable_attention_slicing may have.
PostLoad(r, X, S) ==
    /\ pc[r] = "post"
    /\ IF loc[r].pipe = None
       THEN /\ Raise(r, "UnboundLocalError")
            /\ UNCHANGED <<loc, ran>>
       ELSE \E enable_xformers \in X, enable_attention_slicing \in S :
            LET pipe == [Val(loc[r].pipe) EXCEPT
                            !.attention = IF enable_xformers THEN "xformers"
                                          ELSE IF enable_attention_slicing THEN "sliced"
                                          ELSE "none",
                            !.device = "cuda", !.dtype = "float16"]
            IN  /\ loc' = [loc EXCEPT ![r].pipe = Some(pipe)]
                /\ ret' = [ret EXCEPT ![r] = [@ EXCEPT !.status = "ok", !.pipe = Some(pipe)]]
                /\ Ran(r, "post")
                /\ Goto(r, "done")
    /\ UNCHANGED <<args, route, choice, call, cache, stored, repeats>>

\* The caller issues a further request once one has returned or raised.
NextRequest(r) ==
    /\ pc[r] \in {"done", "error"}
    /\ repeats < MaxRepeats
    /\ repeats' = repeats + 1
    /\ pc' = [pc EXCEPT ![r] = "idle"]
    /\ args' = [args EXCEPT ![r] = NoArgs]
    /\ route' = [route EXCEPT ![r] = "none"]
    /\ choice' = [choice EXCEPT ![r] = None]
    /\ call' = [call EXCEPT ![r] = NoCall]
    /\ loc' = [loc EXCEPT ![r] = NoLoc]
    /\ ret' = [ret EXCEPT ![r] = NoRet]
    /\ ran' = [ran EXCEPT ![r] = <<>>]
    /\ UNCHANGED <<cache, stored>>

----------------------------------------------------------------------------
\* The specifications.

\* Every parameter of a direct call.
DirectCalls ==
    [custom_model_path : {Some(c) : c \in Checkpoints}, model_name : Names,
     config_file_path : {None} \cup ExplicitConfigs,
     image_size : {Some(LowRes), Some(HighRes)},
     prediction_type : {None} \cup {Some(p) : p \in Predictions},
     vae_file_path : VaeFiles, should_cache : BOOLEAN]

\* One request, with every input.
Next ==
    \/ PreparePipe(1, PipeArgs, DownloadableEntries, CustomEntries)
    \/ LoadCkpt(1, DirectCalls)
    \/ LoadInstalled(1)
    \/ LoadDiffusers(1)
    \/ ResolveConfig(1)
    \/ BuildUnet(1)
    \/ BuildVae(1)
    \/ BuildTextEncoder(1)
    \/ Store(1)
    \/ ReturnFromLoad(1)
    \/ PostLoad(1, BOOLEAN, BOOLEAN)

Spec == Init /\ [][Next]_vars

\* Two callers loading custom models under one name at the same time.
ConcCheckpoints ==
    {[global_step |-> None, key_dim |-> None],
     [global_step |-> None, key_dim |-> Some(WideDim)],
     [global_step |-> Some(BaseStep), key_dim |-> Some(WideDim)]}
ConcArgs ==
    [model_name : {"a"}, model_type : {"Custom Models"}, cached : {None},
     downloadable_keys : {{}}, custom_keys : {Some({"a"})}]
ConcEntries ==
    [path : ConcCheckpoints, config : {None, Some(UserVConfig)},
     vae : {None}, keywords : {"kw"}]

NextConc ==
    \E r \in Procs :
        \/ PreparePipe(r, ConcArgs, {}, ConcEntries)
        \/ ResolveConfig(r)
        \/ BuildUnet(r)
        \/ BuildVae(r)
        \/ BuildTextEncoder(r)
        \/ Store(r)
        \/ ReturnFromLoad(r)
        \/ PostLoad(r, {FALSE}, {FALSE})
        \/ NextRequest(r)

InitConc == Init /\ cache["a"] = OldDir

SpecConc == InitConc /\ [][NextConc]_vars

----------------------------------------------------------------------------
\* Vocabulary of the properties.

Stages(r) == {ran[r][i] : i \in 1..Len(ran[r])}
ConversionStages == {"read", "detect", "config", "unet", "vae", "text", "store"}
ConversionPlaces == {"resolve", "unet", "vae", "text", "store", "return"}
StageErrors == {"config", "unet", "vae", "text"}
\* The request has entered load_ckpt_or_safetensors_file_and_cache_as_diffusers.
Converting(r) == route[r] \in {"custom", "hf-file", "direct"} /\ call[r].custom_model_path # None
\* The config has been loaded and the prediction target and resolution resolved.
Resolved(r) == Converting(r) /\ loc[r].original_config # None
SourceCheckpoint(r) == Val(call[r].custom_model_path)
InCache(a) == a.cached # None /\ a.model_name \in Keys(Val(a.cached))

----------------------------------------------------------------------------
\* C1: a prepare_pipe request whose model_name is a key of the cached
\* dictionary takes the cache branch whatever model_type is: no stage of the
\* conversion pipeline and no store runs, the pipeline is loaded from the cached
\* entry's path, and the metadata returned is the cached entry itself.
C1_CachedBypassesConversion ==
    \A r \in Procs :
        (pc[r] # "idle" /\ route[r] # "direct" /\ InCache(args[r])) =>
            /\ route[r] = "cached"
            /\ Stages(r) \cap ConversionStages = {}
            /\ pc[r] \notin ConversionPlaces
            /\ cache \in InitialCaches
            /\ pc[r] = "done" =>
                /\ Val(ret[r].pipe).origin = "hf-cache"
                /\ Val(ret[r].pipe).path = Val(Val(args[r].cached)[args[r].model_name]).path
                /\ ret[r].pipe_info = Val(args[r].cached)[args[r].model_name]

C1_Witness ==
    /\ pc[1] = "done"
    /\ InCache(args[1])
    /\ args[1].model_type = "Custom Models"
    /\ args[1].custom_keys = Some({"a"})

\* C2: save_pretrained starts only once the denoiser, the image codec and the
\* text encoder have all been produced; a request in which a stage failed ends
\* in an error, returns no model and leaves the cache directory as it was.
C2_StoreAfterAllOrNothing ==
    \A r \in Procs :
        /\ "store" \in Stages(r) =>
              /\ loc[r].unet # None /\ loc[r].vae # None /\ loc[r].text_model # None
              /\ {"unet", "vae", "text"} \subseteq Stages(r)
        /\ (pc[r] = "error" /\ ret[r].error \in StageErrors) =>
              /\ ret[r].status = "error"
              /\ ret[r].pipe = None
              /\ "store" \notin Stages(r)
              /\ cache \in InitialCaches

C2_Witness ==
    /\ pc[1] = "error"
    /\ ret[1].error = "text"
    /\ call[1].should_cache
    /\ loc[1].unet # None /\ loc[1].vae # None
    /\ cache["a"] = OldDir

\* C3: with no explicit config, a checkpoint without the distinguishing key, or
\* with it and a trailing dimension other than 1024, resolves to the narrow
\* family, 512 and noise prediction; one with the key and dimension 1024 to the
\* wide family, 768 and velocity prediction, unless its global_step is 875000,
\* which gives the wide family, 512 and noise prediction.
C3_DetectionTable ==
    \A r \in Procs :
        (Resolved(r) /\ call[r].config_file_path = None) =>
            LET ck == SourceCheckpoint(r)
                wide == ck.key_dim = Some(1024)
                result == <<Val(loc[r].config_file_path), Val(loc[r].image_size),
                            Val(loc[r].prediction_type), Val(loc[r].scheduler).prediction_type>>
            IN  CASE ~wide -> result = <<V1Config, 512, "epsilon", "epsilon">>
                  [] wide /\ ck.global_step = Some(875000) ->
                        result = <<V2Config, 512, "epsilon", "epsilon">>
                  [] OTHER -> result = <<V2Config, 768, "v_prediction", "v_prediction">>

C3_Witness ==
    /\ Resolved(1)
    /\ call[1].config_file_path = None
    /\ SourceCheckpoint(1) = [global_step |-> Some(875000), key_dim |-> Some(1024)]
    /\ loc[1].image_size = Some(512)

\* C4, as claimed: with an explicit config the resolved resolution, prediction
\* target and attention-upcast flag depend on the config alone, so two
\* checkpoints loaded with the same explicit config resolve alike.
C4_ExplicitConfigAlone ==
    \A r1 \in Procs, r2 \in Procs :
        (/\ Resolved(r1) /\ Resolved(r2)
         /\ call[r1].config_file_path # None
         /\ call[r1].config_file_path = call[r2].config_file_path) =>
            /\ loc[r1].image_size = loc[r2].image_size
            /\ loc[r1].prediction_type = loc[r2].prediction_type
            /\ loc[r1].upcast_attention = loc[r2].upcast_attention

\* C4, amended: with an explicit config the key and shape detection is
\* bypassed (the config used is the one given, attention upcast is off), and two
\* checkpoints loaded with the same explicit config resolve to the same
\* resolution and prediction target provided they agree on whether their
\* global_step is 875000.
C4_ExplicitConfigAndBaseStep ==
    \A r1 \in Procs, r2 \in Procs :
        (/\ Resolved(r1) /\ Resolved(r2)
         /\ call[r1].config_file_path # None
         /\ call[r1].config_file_path = call[r2].config_file_path
         /\ (SourceCheckpoint(r1).global_step = Some(875000))
                <=> (SourceCheckpoint(r2).global_step = Some(875000))) =>
            /\ loc[r1].config_file_path = call[r1].config_file_path
            /\ loc[r1].image_size = loc[r2].image_size
            /\ loc[r1].prediction_type = loc[r2].prediction_type
            /\ ~loc[r1].upcast_attention /\ ~loc[r2].upcast_attention

C4_Witness ==
    /\ Resolved(1) /\ Resolved(2)
    /\ call[1].config_file_path = Some(UserVConfig)
    /\ call[2].config_file_path = Some(UserVConfig)
    /\ SourceCheckpoint(1) = [global_step |-> None, key_dim |-> None]
    /\ SourceCheckpoint(2) = [global_step |-> None, key_dim |-> Some(1024)]

\* C5: a successful prepare_pipe request that ran the conversion pipeline (a
\* custom checkpoint or a downloaded hf-file) returns as prediction_type the
\* prediction target the pipeline resolved and built the noise schedule with.
C5_MetadataIsResolvedPrediction ==
    \A r \in Procs :
        (pc[r] = "done" /\ route[r] \in {"custom", "hf-file"}) =>
            /\ Val(ret[r].pipe_info).prediction_type = Val(loc[r].prediction_type)
            /\ Val(ret[r].pipe_info).prediction_type
                   = Val(Val(ret[r].pipe).components["scheduler"]).prediction_type

\* The request's name and type match no entry of the three sources.
MatchesNoSource(r) ==
    LET a == args[r]
    IN  /\ ~InCache(a)
        /\ ~(/\ a.model_type = "Downloadable Models"
             /\ a.model_name \in a.downloadable_keys
             /\ choice[r] # None
             /\ Val(choice[r]).type \in {"diffusers", "hf-file"})
        /\ ~(/\ a.model_type = "Custom Models"
             /\ a.custom_keys # None
             /\ a.model_name \in Val(a.custom_keys))

\* C6: a prepare_pipe request whose name and type match no entry of the
\* cached, downloadable or custom sources fails with the "Tried to load"
\* ValueError and nothing else, and no load, conversion, post-load option or
\* store is performed.
C6_SourceNotFound ==
    \A r \in Procs :
        (pc[r] # "idle" /\ route[r] # "direct" /\ MatchesNoSource(r)) =>
            /\ pc[r] = "error"
            /\ ret[r].error = "ValueError: Tried to load and failed."
            /\ ran[r] = <<>>

\* The loaded config names a text-encoder class outside the two known ones.
UnknownFamily(r) ==
    Resolved(r) /\ TextEncoderFamily(Val(loc[r].original_config)) \notin KnownFamilies

\* C7: a text-encoder family that is neither of the two known ones stops the
\* load at the family branch with a dedicated unsupported-family error, with
\* should_cache true or false.
C7_UnsupportedFamilyError ==
    \A r \in Procs :
        UnknownFamily(r) =>
            /\ pc[r] \notin {"store", "return", "post", "done"}
            /\ (pc[r] = "error" /\ ret[r].error \notin {"unet", "vae"}) =>
                   ret[r].error = "UnsupportedTextEncoderFamily"

\* C8, as claimed: with no explicit config and the distinguishing key absent,
\* the load fails with a ConfigResolutionError (unless reading the files failed
\* before).
C8_AbsentKeyFails ==
    \A r \in Procs :
        (/\ Converting(r) /\ pc[r] # "resolve"
         /\ call[r].config_file_path = None
         /\ SourceCheckpoint(r).key_dim = None
         /\ ret[r].error # "config") =>
            /\ pc[r] = "error"
            /\ ret[r].error = "ConfigResolutionError"

\* C8, amended: with no explicit config and the distinguishing key absent,
\* detection does not fail; it defaults to the bundled narrow-family config
\* (v1-inference.yaml) without attention upcast, and the load goes on to the
\* denoiser: the request can still fail only in reading its files or in a later
\* stage.
C8_AbsentKeyDefaultsNarrow ==
    \A r \in Procs :
        (/\ Converting(r) /\ pc[r] # "resolve"
         /\ call[r].config_file_path = None
         /\ SourceCheckpoint(r).key_dim = None) =>
            /\ ret[r].error # "ConfigResolutionError"
            /\ (pc[r] = "error" /\ ret[r].error = "config") \/ Resolved(r)
            /\ Resolved(r) =>
                /\ loc[r].config_file_path = Some(V1Config)
                /\ ~loc[r].upcast_attention
                /\ pc[r] = "error" => ret[r].error \in {"unet", "vae", "text"}

C8_Witness ==
    /\ pc[1] = "unet"
    /\ call[1].config_file_path = None
    /\ SourceCheckpoint(1).key_dim = None
    /\ loc[1].config_file_path = Some(V1Config)

\* The entry one conversion of the call k, run alone, hands to save_pretrained.
SequentialEntry(k) ==
    LET rd == ReadCheckpoint(Val(k.custom_model_path))
        det == DetectConfig(k.config_file_path, rd.checkpoint, rd.global_step)
        original_config == ConfigFiles[Val(det.config_file_path)]
        prediction_type == ResolvePrediction(original_config, None, rd.global_step)
        image_size == ResolveImageSize(original_config, None, rd.global_step)
    IN  [p \in PartSet |->
            CASE p = "vae" ->
                    Some(Component("vae", IF Truthy(k.vae_file_path) THEN None ELSE k.custom_model_path,
                                   IF Truthy(k.vae_file_path) THEN k.vae_file_path ELSE None,
                                   Some(image_size), FALSE, "", ""))
              [] p = "text_encoder" ->
                    Some(Component("text_encoder", k.custom_model_path, None, None, FALSE,
                                   TextEncoderFamily(original_config), ""))
              [] p = "unet" ->
                    Some(Component("unet", k.custom_model_path, None, Some(image_size),
                                   det.upcast_attention, "", ""))
              [] OTHER ->
                    Some(Component("scheduler", None, None, None, FALSE, "", prediction_type))]

StoreDone(r) == Converting(r) /\ "store" \in Stages(r) /\ pc[r] \in {"return", "post", "done"}

C10_CallerParametersUsed ==
    \A r \in Procs :
        (route[r] = "direct" /\ Resolved(r)) =>
            /\ call[r].prediction_type # None =>
                  /\ loc[r].prediction_type = call[r].prediction_type
                  /\ Val(loc[r].scheduler).prediction_type = Val(call[r].prediction_type)
            /\ call[r].image_size # None => loc[r].image_size = call[r].image_size

====
